---- MODULE Spec2Model ----
(***************************************************************************)
(* EduScan learning-risk dashboard (Streamlit).                            *)
(*                                                                         *)
(* Modelled here: the Prediction page (pages/01_Prediction.py), the        *)
(* dashboard (app.py), the login (utils/auth_utils.py) and the JSON record *)
(* store the pages call (utils/data_utils.py, which is not part of the     *)
(* source tree and is modelled from the written specification).            *)
(*                                                                         *)
(* Conventions                                                             *)
(*  - A probability is kept in hundredths: 0.30 is 30, 1.0 is 100.         *)
(*  - st.session_state of a session is a function whose domain is the set  *)
(*    of keys present in it.                                               *)
(*  - A page run (one execution of a page script after a click) is one     *)
(*    action.  The only point where two sessions interleave is inside the  *)
(*    record store's append, which reads the whole file and later writes   *)
(*    the whole file; that operation is two steps.                         *)
(*  - What a run rendered is kept in the variable view.                    *)
(***************************************************************************)
EXTENDS Integers, Sequences, FiniteSets, TLC

VARIABLES
    session_state,  \* st.session_state of every browser session
    files,          \* contents of the JSON files under data/
    saving,         \* per session: the append in flight inside the store
    now,            \* datetime.now(), a logical clock
    view,           \* what the last page run rendered and called
    fn              \* the last application of a pure function (SpecPure)

vars == <<session_state, files, saving, now, view, fn>>

(***************************************************************************)
(* Bounds                                                                  *)
(***************************************************************************)
MaxSaves == 2           \* records built for saving in one behaviour
MaxRows == 2            \* rows of an uploaded batch table

Sessions == {"A", "B"}  \* browser sessions

Range(seq) == {seq[i] : i \in 1..Len(seq)}

\* d.get(key, default) of a dict kept as a function on its present keys
Get(d, key, default) == IF key \in DOMAIN d THEN d[key] ELSE default

\* d[key] = value
Put(d, key, value) == (key :> value) @@ d

\* the dict without the keys outside keep
Keep(d, keep) == [k \in DOMAIN d \cap keep |-> d[k]]

(***************************************************************************)
(* Localisation (utils/language_utils.py).  The English texts of the three *)
(* tier keys are the literals the dashboard and the batch loop use; any    *)
(* other language gives a text of its own for the key.                     *)
(***************************************************************************)
Languages == {"English", "Somali"}

TierKeys == <<"low_risk", "medium_risk", "high_risk">>

get_text(key, language) ==
    IF language = "English"
    THEN CASE key = "low_risk" -> "Low Risk"
           [] key = "medium_risk" -> "Medium Risk"
           [] key = "high_risk" -> "High Risk"
           [] OTHER -> key
    ELSE language \o ":" \o key

(***************************************************************************)
(* Feature validator                                                       *)
(***************************************************************************)
ScoreMin == 0
ScoreMax == 100
BehaviorMin == 1
BehaviorMax == 5
LiteracyMin == 1
LiteracyMax == 10

MathMsg == "Math score must be between 0 and 100"
ReadingMsg == "Reading score must be between 0 and 100"
WritingMsg == "Writing score must be between 0 and 100"
AttendanceMsg == "Attendance must be between 0 and 100%"
BehaviorMsg == "Behavior rating must be between 1 and 5"
LiteracyMsg == "Literacy level must be between 1 and 10"

\* errors.append(msg) under "if not (lo <= v <= hi)"
AppendUnless(errors, lo, v, hi, msg) ==
    IF ~(lo <= v /\ v <= hi) THEN Append(errors, msg) ELSE errors

\* as validate_inputs, but returning at the first violation
validate_inputs_first(math_score, reading_score, writing_score, attendance, behavior, literacy) ==
    IF ~(ScoreMin <= math_score /\ math_score <= ScoreMax) THEN <<MathMsg>>
    ELSE IF ~(ScoreMin <= reading_score /\ reading_score <= ScoreMax) THEN <<ReadingMsg>>
    ELSE IF ~(ScoreMin <= writing_score /\ writing_score <= ScoreMax) THEN <<WritingMsg>>
    ELSE IF ~(ScoreMin <= attendance /\ attendance <= ScoreMax) THEN <<AttendanceMsg>>
    ELSE IF ~(BehaviorMin <= behavior /\ behavior <= BehaviorMax) THEN <<BehaviorMsg>>
    ELSE IF ~(LiteracyMin <= literacy /\ literacy <= LiteracyMax) THEN <<LiteracyMsg>>
    ELSE <<>>

validate_inputs(math_score, reading_score, writing_score, attendance, behavior, literacy) ==
    LET e1 == AppendUnless(<<>>, ScoreMin, math_score, ScoreMax, MathMsg)
        e2 == AppendUnless(e1, ScoreMin, reading_score, ScoreMax, ReadingMsg)
        e3 == AppendUnless(e2, ScoreMin, writing_score, ScoreMax, WritingMsg)
        e4 == AppendUnless(e3, ScoreMin, attendance, ScoreMax, AttendanceMsg)
        e5 == AppendUnless(e4, BehaviorMin, behavior, BehaviorMax, BehaviorMsg)
        e6 == AppendUnless(e5, LiteracyMin, literacy, LiteracyMax, LiteracyMsg)
    IN  e6

\* the six fields of a student_data dict, in model-feature order
FeatureNames == <<"math_score", "reading_score", "writing_score", "attendance", "behavior", "literacy">>

validate_student(d) ==
    validate_inputs(d.math_score, d.reading_score, d.writing_score,
                    d.attendance, d.behavior, d.literacy)

(***************************************************************************)
(* Risk tier, derived at three places of the Prediction page               *)
(***************************************************************************)
LowThreshold == 30      \* prediction_prob < 0.3
HighThreshold == 70     \* prediction_prob < 0.7

\* as risk_level_fresh, but with the lower boundary in the lower tier
risk_level_fresh_le(prediction_prob, language) ==
    IF prediction_prob <= LowThreshold THEN get_text("low_risk", language)
    ELSE IF prediction_prob < HighThreshold THEN get_text("medium_risk", language)
    ELSE get_text("high_risk", language)

\* fresh single-student result
risk_level_fresh(prediction_prob, language) ==
    IF prediction_prob < LowThreshold THEN get_text("low_risk", language)
    ELSE IF prediction_prob < HighThreshold THEN get_text("medium_risk", language)
    ELSE get_text("high_risk", language)

\* as risk_level_cached, but with the upper boundary in the middle tier
risk_level_cached_le(prediction_prob, language) ==
    IF prediction_prob < LowThreshold THEN get_text("low_risk", language)
    ELSE IF prediction_prob <= HighThreshold THEN get_text("medium_risk", language)
    ELSE get_text("high_risk", language)

\* cached result shown again on a later rerun
risk_level_cached(prediction_prob, language) ==
    IF prediction_prob < LowThreshold THEN get_text("low_risk", language)
    ELSE IF prediction_prob < HighThreshold THEN get_text("medium_risk", language)
    ELSE get_text("high_risk", language)

\* batch loop
risk_level_batch(prediction_prob) ==
    IF prediction_prob < LowThreshold THEN "Low Risk"
    ELSE IF prediction_prob < HighThreshold THEN "Medium Risk"
    ELSE "High Risk"

\* f"{prediction_prob:.1%}" of a probability kept in hundredths
format_percent(prediction_prob) == <<prediction_prob, ".0%">>

(***************************************************************************)
(* Recommendations                                                         *)
(***************************************************************************)
LowRecommendations == <<
    "Maintain current learning pace and methods",
    "Continue regular progress monitoring",
    "Encourage continued engagement in all subjects",
    "Consider enrichment activities to challenge the student">>

MediumRecommendations == <<
    "Implement targeted interventions in lower-performing areas",
    "Increase frequency of progress monitoring",
    "Consider additional support in specific subjects",
    "Engage parents in home-based learning activities",
    "Explore different teaching methods and materials">>

HighRecommendations == <<
    "Initiate comprehensive assessment by learning specialists",
    "Implement intensive intervention strategies",
    "Consider individualized education plan (IEP)",
    "Increase collaboration between teachers and parents",
    "Explore assistive technologies and adaptive methods",
    "Regular monitoring and adjustment of intervention strategies">>

\* as display_recommendations, but comparing with the English tier texts
display_recommendations_english(risk_level, student_data, language) ==
    IF risk_level = "Low Risk" THEN LowRecommendations
    ELSE IF risk_level = "Medium Risk" THEN MediumRecommendations
    ELSE HighRecommendations

\* the list of lines written under the "Recommendations" heading
display_recommendations(risk_level, student_data, language) ==
    IF risk_level = get_text("low_risk", language) THEN LowRecommendations
    ELSE IF risk_level = get_text("medium_risk", language) THEN MediumRecommendations
    ELSE HighRecommendations

(***************************************************************************)
(* Record store (utils/data_utils.py): a JSON array per collection.        *)
(* append: load the existing records (an absent or unreadable store gives  *)
(* the empty collection), add the record, write the whole array back.      *)
(***************************************************************************)
Stores == {"predictions", "observations"}

\* keys of a prediction record, in the order the page builds the dict
PredictionKeys == <<"timestamp", "student_name", "grade_level", "prediction",
                    "probability", "risk_level", "notes", "math_score",
                    "reading_score", "writing_score", "attendance", "behavior",
                    "literacy">>

\* keys of a parent observation, in the order the page builds the dict
ObservationKeys == <<"child_name", "date", "homework_completion", "reading_time",
                     "focus_level", "subjects_struggled", "behavior_rating",
                     "mood_rating", "sleep_hours", "energy_level",
                     "social_interactions", "learning_wins", "challenges_faced",
                     "strategies_used", "screen_time", "physical_activity",
                     "medication_taken", "special_events", "timestamp">>

KeysOf(store) == IF store = "predictions" THEN PredictionKeys ELSE ObservationKeys

StringKeys == {"timestamp", "student_name", "grade_level", "risk_level", "notes",
               "child_name", "date", "focus_level", "energy_level",
               "social_interactions", "learning_wins", "challenges_faced",
               "strategies_used", "special_events"}

\* the JSON type a value of this key is written with
JsonType(key) ==
    IF key \in StringKeys THEN "string"
    ELSE IF key = "medication_taken" THEN "boolean"
    ELSE IF key = "subjects_struggled" THEN "array"
    ELSE "number"

\* as json_dump_object, but without the last key of the dict
json_dump_object_short(record, keys) ==
    [i \in 1..(Len(keys) - 1) |-> <<keys[i], JsonType(keys[i]), record[keys[i]]>>]

\* one dict as a JSON object: its members in insertion order
json_dump_object(record, keys) ==
    [i \in 1..Len(keys) |-> <<keys[i], JsonType(keys[i]), record[keys[i]]>>]

\* json.dump of a list of dicts
json_dump(records, keys) ==
    [i \in 1..Len(records) |-> json_dump_object(records[i], keys)]

\* one JSON object as a dict; of two members with one name the later wins
json_load_object(object) ==
    [k \in {object[i][1] : i \in 1..Len(object)} |->
        LET last == CHOOSE i \in 1..Len(object) :
                        /\ object[i][1] = k
                        /\ \A j \in (i + 1)..Len(object) : object[j][1] # k
        IN  object[last][3]]

\* json.load of an array of objects
json_load(text) == [i \in 1..Len(text) |-> json_load_object(text[i])]

\* a file: absent, corrupt (not JSON), unreadable (no permission) or ok
AbsentFile == [status |-> "absent", text |-> <<>>]
Readable(file) == file.status = "ok"

\* as load_all, but reading whatever objects a damaged file still holds
load_all_lenient(file) == json_load(file.text)

\* load_all: every record of the store, oldest first; damaged or absent gives none
load_all(file) == IF Readable(file) THEN json_load(file.text) ELSE <<>>

load_student_data == load_all(files["predictions"])
load_parent_observations == load_all(files["observations"])

\* first half of append: load the collection (found: what was there to load)
append_load(s, store, record) ==
    saving' = [saving EXCEPT ![s] =
                <<[store |-> store,
                   found |-> files[store].status,
                   loaded |-> load_all(files[store]),
                   record |-> record]>>]

\* as append_write, but adding the record to what the file holds at the write
append_write_checked(s) ==
    LET a == saving[s][1]
    IN  /\ files' = [files EXCEPT ![a.store] =
                        [status |-> "ok",
                         text |-> json_dump(Append(load_all(files[a.store]), a.record),
                                            KeysOf(a.store))]]
        /\ saving' = [saving EXCEPT ![s] = <<>>]

\* as append_write, but putting the new record first
append_write_front(s) ==
    LET a == saving[s][1]
    IN  /\ files' = [files EXCEPT ![a.store] =
                        [status |-> "ok",
                         text |-> json_dump(<<a.record>> \o a.loaded, KeysOf(a.store))]]
        /\ saving' = [saving EXCEPT ![s] = <<>>]

\* second half of append: add the record and write the whole collection back
append_write(s) ==
    LET a == saving[s][1]
    IN  /\ files' = [files EXCEPT ![a.store] =
                        [status |-> "ok",
                         text |-> json_dump(Append(a.loaded, a.record), KeysOf(a.store))]]
        /\ saving' = [saving EXCEPT ![s] = <<>>]

(***************************************************************************)
(* Authentication (utils/auth_utils.py)                                    *)
(***************************************************************************)
\* the users _load_users writes when data/users.json does not exist
dummy_users == <<
    [username |-> "teacher1", password |-> "password123", role |-> "teacher"],
    [username |-> "parent1", password |-> "password123", role |-> "parent"],
    [username |-> "admin", password |-> "adminpassword", role |-> "admin"]>>

\* data/users.json: absent, empty, corrupt, unreadable, or ok with a user list
AbsentUsersFile == [status |-> "absent", users |-> <<>>]

\* the list _load_users returns; an absent or empty file is created with the
\* dummy users, a file that cannot be parsed or read gives no users
load_users(file) ==
    IF file.status \in {"absent", "empty"} THEN dummy_users
    ELSE IF file.status = "ok" THEN file.users
    ELSE <<>>

\* Python's None, as the value of a session_state key
None == "None"

is_authenticated(s) == Get(session_state[s], "authenticated", FALSE)

get_user_role(s) == Get(session_state[s], "role", None)

\* as authenticate_user, but taking the last entry of the list that matches
authenticate_user_last(users, ss, username, password) ==
    LET hits == {i \in 1..Len(users) :
                    users[i].username = username /\ users[i].password = password}
    IN  IF hits # {}
        THEN LET user == users[CHOOSE i \in hits : \A j \in hits : i >= j]
             IN  [returned |-> TRUE,
                  session_state |->
                    Put(Put(Put(ss, "authenticated", TRUE), "username", user.username),
                        "role", user.role)]
        ELSE [returned |-> FALSE, session_state |-> Put(ss, "authenticated", FALSE)]

\* authenticate_user over the loaded users: the value returned and the
\* session_state left; the loop returns at the first entry that matches
authenticate_user(users, ss, username, password) ==
    LET hits == {i \in 1..Len(users) :
                    users[i].username = username /\ users[i].password = password}
    IN  IF hits # {}
        THEN LET user == users[CHOOSE i \in hits : \A j \in hits : i <= j]
             IN  [returned |-> TRUE,
                  session_state |->
                    Put(Put(Put(ss, "authenticated", TRUE), "username", user.username),
                        "role", user.role)]
        ELSE [returned |-> FALSE, session_state |-> Put(ss, "authenticated", FALSE)]

\* as logout_user, but leaving username and role as they are
logout_user_keeps(ss) == Put(ss, "authenticated", FALSE)

\* the session_state logout_user leaves
logout_user(ss) ==
    Put(Put(Put(ss, "authenticated", FALSE), "username", None), "role", None)

(***************************************************************************)
(* What a page run rendered                                                *)
(***************************************************************************)
BlankView == [
    page |-> "",                \* the script that ran
    run |-> "",                 \* the branch of the script that ran
    language |-> "",            \* the language the run rendered in
    model_inputs |-> <<>>,      \* arguments of the calls of make_prediction
    errors |-> <<>>,            \* validation messages written
    notices |-> <<>>,           \* st.error / st.info / st.success texts
    prob |-> -1,                \* probability shown
    risk_level |-> "",          \* tier text shown
    recommendations |-> <<>>,   \* recommendation lines written
    student_data |-> <<>>,      \* the student data the result was rendered from
    read_status |-> "",         \* status of the store file a read found
    loaded |-> <<>>,            \* records a read returned
    table |-> <<>>,             \* rows of the table shown
    form |-> <<>>,              \* what the form widgets held in a run that saved
    upload |-> <<>>,            \* columns and number of rows of the uploaded table
    model_outputs |-> <<>>,     \* what the calls of make_prediction did, in call order
    clicked |-> "",             \* the button of the Single Student form clicked for the run
    redirect |-> "",            \* the script st.switch_page handed the run to
    trail |-> <<>>,             \* the scripts run since the user opened a page
    download |-> <<>>]          \* rows of the file offered for download

(***************************************************************************)
(* Prediction page, Single Student                                         *)
(***************************************************************************)
\* options of the behaviour select_slider: "<n> - <text>"
behavior_options(language) ==
    <<<<1, get_text("poor", language)>>, <<2, get_text("below_average", language)>>,
      <<3, get_text("average", language)>>, <<4, get_text("good", language)>>,
      <<5, get_text("excellent", language)>>>>

\* options of the literacy select_slider
literacy_options ==
    [i \in 1..10 |-> <<i, IF i <= 3 THEN "Beginner" ELSE IF i <= 6 THEN "Developing" ELSE "Advanced">>]

\* int(selection.split(' ')[0])
selected_number(selection) == selection[1]

\* the six values the form hands to validate_inputs
form_student_data(form) ==
    [math_score |-> form.math_score,
     reading_score |-> form.reading_score,
     writing_score |-> form.writing_score,
     attendance |-> form.attendance,
     behavior |-> selected_number(form.behavior_selection),
     literacy |-> selected_number(form.literacy_selection)]

\* the dict handed to save_prediction_data
prediction_record(timestamp, student_name, grade_level, prediction, prediction_prob, risk_level, notes, student_data) ==
    [timestamp |-> timestamp,
     student_name |-> student_name,
     grade_level |-> grade_level,
     prediction |-> prediction,
     probability |-> prediction_prob,
     risk_level |-> risk_level,
     notes |-> notes,
     math_score |-> student_data.math_score,
     reading_score |-> student_data.reading_score,
     writing_score |-> student_data.writing_score,
     attendance |-> student_data.attendance,
     behavior |-> student_data.behavior,
     literacy |-> student_data.literacy]

\* datetime.now().isoformat()
isoformat(t) == <<"T", t>>

language_of(s) == Get(session_state[s], "app_language", "English")

\* the result block both the fresh and the cached path render
result_view(s, run, prediction_prob, risk_level, student_data) ==
    [BlankView EXCEPT
        !.page = "prediction", !.run = run,
        !.language = language_of(s),
        !.prob = prediction_prob,
        !.risk_level = risk_level,
        !.recommendations = display_recommendations(risk_level, student_data, language_of(s)),
        !.student_data = <<student_data>>]

\* as predict_rejected, but going on to the model after writing the errors
predict_rejected_calls(s, form, errors) ==
    /\ view' = [BlankView EXCEPT !.page = "prediction", !.run = "rejected",
                    !.language = language_of(s),
                    !.errors = errors,
                    !.model_inputs = <<form_student_data(form)>>,
                    !.notices = <<get_text("please_correct_errors", language_of(s))>>]
    /\ UNCHANGED <<session_state, files, saving, now, fn>>

\* Predict clicked, validate_inputs found errors
predict_rejected(s, form, errors) ==
    /\ view' = [BlankView EXCEPT !.page = "prediction", !.run = "rejected",
                    !.language = language_of(s),
                    !.errors = errors,
                    !.notices = <<get_text("please_correct_errors", language_of(s))>>]
    /\ UNCHANGED <<session_state, files, saving, now, fn>>

\* Predict clicked, make_prediction raised
predict_failed(s, form) ==
    /\ view' = [BlankView EXCEPT !.page = "prediction", !.run = "failed",
                    !.model_inputs = <<form_student_data(form)>>,
                    !.notices = <<"Error making prediction",
                                  "Note: Using sample prediction model. Replace with your trained model file.">>]
    /\ UNCHANGED <<session_state, files, saving, now, fn>>

\* Predict clicked, make_prediction returned (prediction, prediction_prob)
predict_shown(s, form, outcome) ==
    LET student_data == form_student_data(form)
        risk_level == risk_level_fresh(outcome.prob, language_of(s))
    IN  /\ session_state' = [session_state EXCEPT ![s] =
                Put(Put(@, "show_prediction_results", TRUE),
                    "current_prediction_data",
                    [prediction |-> outcome.prediction,
                     prediction_prob |-> outcome.prob,
                     student_data |-> student_data,
                     student_name |-> form.student_name,
                     grade_level |-> form.grade_level,
                     notes |-> form.notes])]
        /\ view' = [result_view(s, "fresh", outcome.prob, risk_level, student_data)
                        EXCEPT !.model_inputs = <<student_data>>]
        /\ UNCHANGED <<files, saving, now, fn>>

\* a run of the Single Student branch with the Predict button clicked
Predict(s, form, outcome) ==
    /\ is_authenticated(s)
    /\ saving[s] = <<>>
    /\ LET errors == validate_student(form_student_data(form))
       IN  IF errors # <<>> THEN predict_rejected(s, form, errors)
           ELSE IF outcome.raises THEN predict_failed(s, form)
           ELSE predict_shown(s, form, outcome)

\* the cached result is rendered: show_results, the key present, Predict not clicked
shows_cached(s) ==
    /\ Get(session_state[s], "show_prediction_results", FALSE)
    /\ "current_prediction_data" \in DOMAIN session_state[s]

cached_view(s, run) ==
    LET pred_data == session_state[s]["current_prediction_data"]
        risk_level == risk_level_cached(pred_data.prediction_prob, language_of(s))
    IN  result_view(s, run, pred_data.prediction_prob, risk_level, pred_data.student_data)

\* a run of the Single Student branch with no button clicked
Rerun(s) ==
    /\ is_authenticated(s)
    /\ saving[s] = <<>>
    /\ view' = IF shows_cached(s) THEN cached_view(s, "cached")
               ELSE [BlankView EXCEPT !.page = "prediction", !.run = "form"]
    /\ UNCHANGED <<session_state, files, saving, now, fn>>

\* as cached_record, but taking name, grade, notes and the six values from the form
cached_record_form(s, form, t) ==
    LET pred_data == session_state[s]["current_prediction_data"]
    IN  prediction_record(isoformat(t), form.student_name, form.grade_level,
            pred_data.prediction, pred_data.prediction_prob,
            risk_level_cached(pred_data.prediction_prob, language_of(s)),
            form.notes, form_student_data(form))

\* the prediction_record of the cached path: every value but the timestamp and
\* the tier text is read from current_prediction_data, the form is not used
cached_record(s, form, t) ==
    LET pred_data == session_state[s]["current_prediction_data"]
    IN  prediction_record(isoformat(t), pred_data.student_name, pred_data.grade_level,
            pred_data.prediction, pred_data.prediction_prob,
            risk_level_cached(pred_data.prediction_prob, language_of(s)),
            pred_data.notes, pred_data.student_data)

\* as SaveClick, but saving a record of the form when no prediction is cached
SaveClick_always(s, form) ==
    /\ is_authenticated(s)
    /\ saving[s] = <<>>
    /\ now < MaxSaves
    /\ now' = now + 1
    /\ IF shows_cached(s)
       THEN /\ append_load(s, "predictions", cached_record(s, form, now))
            /\ view' = [cached_view(s, "saving") EXCEPT !.form = <<form>>, !.clicked = "save"]
       ELSE /\ append_load(s, "predictions",
                   prediction_record(isoformat(now), form.student_name, form.grade_level,
                                     0, 0, "", form.notes, form_student_data(form)))
            /\ view' = [BlankView EXCEPT !.page = "prediction", !.run = "form",
                                         !.clicked = "save"]
    /\ UNCHANGED <<session_state, files, fn>>

\* a run with a save control clicked ("Save Data", or "Save This Prediction"
\* under a cached result): up to the load inside save_prediction_data.  The
\* save of the fresh-result path is under "if predict_button", and no run has
\* two buttons clicked, so it is the cached path that saves.
SaveClick(s, form) ==
    /\ is_authenticated(s)
    /\ saving[s] = <<>>
    /\ IF shows_cached(s)
       THEN /\ now < MaxSaves
            /\ now' = now + 1
            /\ append_load(s, "predictions", cached_record(s, form, now))
            /\ view' = [cached_view(s, "saving") EXCEPT !.form = <<form>>, !.clicked = "save"]
       ELSE /\ view' = [BlankView EXCEPT !.page = "prediction", !.run = "form",
                                         !.clicked = "save"]
            /\ UNCHANGED <<saving, now>>
    /\ UNCHANGED <<session_state, files, fn>>

SavedMsg == " Prediction saved successfully!"

\* the rest of that run: the write-back, then st.success
SaveDone(s) ==
    /\ saving[s] # <<>>
    /\ saving[s][1].store = "predictions"
    /\ append_write(s)
    /\ view' = [cached_view(s, "saved") EXCEPT !.notices = <<SavedMsg>>]
    /\ UNCHANGED <<session_state, now, fn>>

\* a click on the "Save This Prediction" button that the run of the Predict
\* click rendered (key save_button_after_predict_<n>).  The run of the click
\* has predict_button False, so the branch that holds this button is not
\* entered and its click is read by no st.button call; the cached path runs
\* with save_button False and its own button (key
\* save_button_after_predict_rerun_<n>) not clicked.
SaveThisFresh(s) ==
    /\ is_authenticated(s)
    /\ saving[s] = <<>>
    /\ view.run = "fresh"
    /\ shows_cached(s)
    /\ view' = [cached_view(s, "cached") EXCEPT !.clicked = "save_this_fresh"]
    /\ UNCHANGED <<session_state, files, saving, now, fn>>

\* what the store does when the file cannot be written: it reports the error
\* itself and returns, or the error reaches the caller as an exception
WriteFailures == {"reported", "raised"}

\* the rest of that run when the file cannot be written.  The call of
\* save_prediction_data is in no try block and is followed by st.success: a
\* store that returns lets the success message follow its error, an exception
\* ends the run below the result already rendered.
SaveFailed(s, failure) ==
    /\ saving[s] # <<>>
    /\ saving[s][1].store = "predictions"
    /\ saving' = [saving EXCEPT ![s] = <<>>]
    /\ view' = IF failure = "reported"
               THEN [cached_view(s, "save_failed") EXCEPT
                        !.notices = <<"Error saving data", SavedMsg>>]
               ELSE [cached_view(s, "aborted") EXCEPT
                        !.notices = <<"Exception">>]
    /\ UNCHANGED <<session_state, files, now, fn>>

\* the keys Clear Form leaves in session_state
keys_to_keep == {"app_language", "app_theme", "offline_mode", "authenticated",
                 "username", "role"}

\* as reset_state, but deleting no key
reset_state_keeps(ss) == Put(ss, "reset_counter", 1)

\* the session_state Clear Form leaves: reset_counter is deleted with the
\* rest, set to 0 again and incremented
reset_state(ss) == Put(Keep(ss, keys_to_keep), "reset_counter", 1)

\* a run with Clear Form clicked, and the rerun it asks for
Reset(s) ==
    /\ is_authenticated(s)
    /\ saving[s] = <<>>
    /\ session_state' = [session_state EXCEPT ![s] = reset_state(@)]
    /\ view' = [BlankView EXCEPT !.page = "prediction", !.run = "form",
                                 !.clicked = "reset"]
    /\ UNCHANGED <<files, saving, now, fn>>

(***************************************************************************)
(* Prediction page, Batch Upload                                           *)
(***************************************************************************)
required_columns == FeatureNames

\* as missing_columns, but stopping at the first column that is missing
missing_columns_first(columns) ==
    LET missing == SelectSeq(required_columns, LAMBDA col : col \notin columns)
    IN  IF missing = <<>> THEN <<>> ELSE <<missing[1]>>

\* [col for col in required_columns if col not in df.columns]
missing_columns(columns) ==
    SelectSeq(required_columns, LAMBDA col : col \notin columns)

\* the dict appended to results for one row; the row's own columns come last
batch_result(idx, row, prediction_prob) ==
    row @@ [Student_ID |-> idx + 1,
            Risk_Level |-> risk_level_batch(prediction_prob),
            Risk_Probability |-> format_percent(prediction_prob)]

\* the loop over df.iterrows(): [results, calls, notices] after the rows from i on
RECURSIVE batch_loop(_, _, _, _)
batch_loop(rows, outcomes, i, acc) ==
    IF i > Len(rows) THEN acc
    ELSE LET calls == Append(acc.calls, rows[i])
         IN  IF outcomes[i].raises
             THEN batch_loop(rows, outcomes, i + 1,
                     [acc EXCEPT !.calls = calls,
                                 !.notices = Append(@, <<"Error processing student", i>>)])
             ELSE batch_loop(rows, outcomes, i + 1,
                     [acc EXCEPT !.calls = calls,
                                 !.results = Append(@, batch_result(i - 1, rows[i], outcomes[i].prob))])

\* a run of the Batch Upload branch with a file uploaded and the button clicked
ProcessBatch(s, upload, outcomes) ==
    /\ is_authenticated(s)
    /\ saving[s] = <<>>
    /\ LET missing == missing_columns(upload.columns)
           done == batch_loop(upload.rows, outcomes, 1,
                              [results |-> <<>>, calls |-> <<>>, notices |-> <<>>])
           base == [BlankView EXCEPT
                        !.page = "prediction",
                        !.upload = <<[columns |-> upload.columns,
                                      rows |-> Len(upload.rows)]>>]
       IN  view' =
             IF missing # <<>>
             THEN [base EXCEPT !.run = "batch_rejected",
                               !.notices = <<<<"Missing required columns", missing>>>>]
             ELSE IF done.results = <<>>
             THEN \* results_df['Risk_Level'] of an empty frame raises; the outer except reports it
                  [base EXCEPT !.run = "batch",
                               !.model_inputs = done.calls,
                               !.table = done.results,
                               !.model_outputs = outcomes,
                               !.notices = Append(done.notices,
                                                  <<"Error reading file", "Risk_Level">>)]
             ELSE [base EXCEPT !.run = "batch",
                               !.model_inputs = done.calls,
                               !.model_outputs = outcomes,
                               !.table = done.results,
                               !.download = done.results,
                               !.notices = done.notices]
    /\ UNCHANGED <<session_state, files, saving, now, fn>>

(***************************************************************************)
(* Pages that read the prediction store                                    *)
(***************************************************************************)
\* as Historical, but taking the analysis branch for any list, empty or not
Historical_not_none(s) ==
    /\ is_authenticated(s)
    /\ saving[s] = <<>>
    /\ view' = [BlankView EXCEPT
            !.page = "prediction",
            !.read_status = files["predictions"].status,
            !.loaded = load_student_data,
            !.run = "historical"]
    /\ UNCHANGED <<session_state, files, saving, now, fn>>

\* a run of the Historical Analysis branch
Historical(s) ==
    /\ is_authenticated(s)
    /\ saving[s] = <<>>
    /\ LET historical_data == load_student_data
       IN  view' = [BlankView EXCEPT
                !.page = "prediction",
                !.read_status = files["predictions"].status,
                !.loaded = historical_data,
                !.run = IF historical_data # <<>> THEN "historical" ELSE "no_data",
                !.notices = IF historical_data # <<>> THEN <<>>
                            ELSE <<"No historical data available. Make some predictions first!">>]
    /\ UNCHANGED <<session_state, files, saving, now, fn>>

\* df_students[df_students['risk_level'] == level].shape[0]
count_level(records, level) ==
    Cardinality({i \in 1..Len(records) : records[i].risk_level = level})

\* what render_dashboard_page_content renders
dashboard_view(s) ==
    LET all_student_data == load_student_data
        empty == all_student_data = <<>>
    IN  [BlankView EXCEPT
            !.page = "app",
            !.read_status = files["predictions"].status,
            !.loaded = all_student_data,
            !.run = IF empty THEN "no_data" ELSE "dashboard",
            !.table = <<[total_students |-> Len(all_student_data),
                         on_track_count |-> IF empty THEN 0 ELSE count_level(all_student_data, "Low Risk"),
                         at_risk_count |-> IF empty THEN 0 ELSE count_level(all_student_data, "Medium Risk"),
                         intervention_count |-> IF empty THEN 0 ELSE count_level(all_student_data, "High Risk")]>>]

\* a run of app.py by an authenticated session: the dashboard
Dashboard(s) ==
    /\ is_authenticated(s)
    /\ saving[s] = <<>>
    /\ view' = dashboard_view(s)
    /\ UNCHANGED <<session_state, files, saving, now, fn>>

InvalidLoginMsg == "Invalid username or password."

\* as login_submit, but telling an unknown username from a wrong password
login_submit_reveals(users, ss, username, password) ==
    LET auth == authenticate_user(users, ss, username, password)
    IN  [returned |-> auth.returned,
         session_state |-> auth.session_state,
         notices |-> IF auth.returned THEN <<"Welcome">>
                     ELSE IF \E i \in 1..Len(users) : users[i].username = username
                     THEN <<"Wrong password.">>
                     ELSE <<"Unknown user.">>]

\* the submit branch of render_login_page: what authenticate_user returned,
\* the session_state it left and the message written
login_submit(users, ss, username, password) ==
    LET auth == authenticate_user(users, ss, username, password)
    IN  [returned |-> auth.returned,
         session_state |-> auth.session_state,
         notices |-> IF auth.returned THEN <<"Welcome">> ELSE <<InvalidLoginMsg>>]

\* a run of app.py by a session that is not authenticated, the login form submitted
Login(s, username, password) ==
    /\ ~is_authenticated(s)
    /\ LET done == login_submit(load_users(AbsentUsersFile), session_state[s],
                                username, password)
       IN  /\ session_state' = [session_state EXCEPT ![s] = done.session_state]
           /\ view' = [BlankView EXCEPT
                    !.page = "app", !.run = "login", !.notices = done.notices]
    /\ UNCHANGED <<files, saving, now, fn>>

\* the logout control of the sidebar: logout_user, then the switch to app.py,
\* which renders the login form
Logout(s) ==
    /\ is_authenticated(s)
    /\ saving[s] = <<>>
    /\ session_state' = [session_state EXCEPT ![s] = logout_user(@)]
    /\ view' = [BlankView EXCEPT !.page = "app", !.run = "login_form"]
    /\ UNCHANGED <<files, saving, now, fn>>

\* the language control of the settings panel in the sidebar
SetLanguage(s, language) ==
    /\ language # language_of(s)
    /\ saving[s] = <<>>
    /\ session_state' = [session_state EXCEPT ![s] = Put(@, "app_language", language)]
    /\ UNCHANGED <<files, saving, now, view, fn>>

(***************************************************************************)
(* Parent Tracker page                                                     *)
(***************************************************************************)
\* date.today().isoformat(); the runs of one behaviour fall on one day
date_today(t) == "today"

\* the dict built on submit of the daily observation form, the form at its
\* defaults; hours are kept in half hours
observation_data(child_name, language, t) ==
    [child_name |-> child_name,
     date |-> date_today(t),
     homework_completion |-> 75,
     reading_time |-> 20,
     focus_level |-> get_text("good", "English"),
     subjects_struggled |-> <<>>,
     behavior_rating |-> 3,
     mood_rating |-> 3,
     sleep_hours |-> 16,
     energy_level |-> get_text("normal", language),
     social_interactions |-> "",
     learning_wins |-> "",
     challenges_faced |-> "",
     strategies_used |-> "",
     screen_time |-> 4,
     physical_activity |-> 60,
     medication_taken |-> FALSE,
     special_events |-> "",
     timestamp |-> isoformat(t)]

\* as parent_redirect, but without the role check
parent_redirect_open(s) == IF ~is_authenticated(s) THEN "app.py" ELSE ""

\* the checks at the top of main: None, or the page the run is sent to
parent_redirect(s) ==
    IF ~is_authenticated(s) THEN "app.py"
    ELSE IF get_user_role(s) = "teacher" THEN "pages/02_Teacher_Resources.py"
    ELSE ""

\* a run with the daily observation form submitted: up to the load inside the store
ParentSubmit(s, child_name) ==
    /\ parent_redirect(s) = ""
    /\ saving[s] = <<>>
    /\ now < MaxSaves
    /\ now' = now + 1
    /\ append_load(s, "observations", observation_data(child_name, language_of(s), now))
    /\ view' = [BlankView EXCEPT !.page = "parent", !.run = "saving"]
    /\ UNCHANGED <<session_state, files, fn>>

\* the rest of that run: the write-back, then st.success
ParentSubmitDone(s) ==
    /\ saving[s] # <<>>
    /\ saving[s][1].store = "observations"
    /\ append_write(s)
    /\ view' = [BlankView EXCEPT !.page = "parent", !.run = "saved",
                    !.notices = <<" Observation saved successfully!">>]
    /\ UNCHANGED <<session_state, now, fn>>

\* a run of the Observations Log view
ParentLog(s, child_name) ==
    /\ parent_redirect(s) = ""
    /\ saving[s] = <<>>
    /\ LET all_observations == load_parent_observations
           child_observations == SelectSeq(all_observations,
                                    LAMBDA obs : Get(obs, "child_name", "") = child_name)
       IN  view' = [BlankView EXCEPT
                !.page = "parent",
                !.read_status = files["observations"].status,
                !.loaded = all_observations,
                !.run = IF child_observations = <<>> THEN "no_data" ELSE "log",
                !.notices = IF child_observations = <<>>
                            THEN <<get_text("no_observations_recorded", language_of(s))>>
                            ELSE <<>>,
                !.table = child_observations]
    /\ UNCHANGED <<session_state, files, saving, now, fn>>

(***************************************************************************)
(* Opening a page.  Every script starts with its access checks; a check    *)
(* that fails hands the run to another script with st.switch_page.         *)
(***************************************************************************)
MaxHops == 4            \* scripts run in a row for one opened page

Pages == {"app.py", "pages/01_Prediction.py", "pages/02_Teacher_Resources.py",
          "pages/03_Parent_Tracker.py", "pages/04_Educational_Content.py"}

\* the value of view.page for a script
page_name(page) ==
    CASE page = "app.py" -> "app"
      [] page = "pages/01_Prediction.py" -> "prediction"
      [] page = "pages/02_Teacher_Resources.py" -> "teacher"
      [] page = "pages/03_Parent_Tracker.py" -> "parent"
      [] page = "pages/04_Educational_Content.py" -> "content"

\* the check at the top of main of the Prediction page
prediction_redirect(s) == IF ~is_authenticated(s) THEN "app.py" ELSE ""

\* as teacher_redirect, but with the role check sending teachers away
teacher_redirect_teacher(s) ==
    IF ~is_authenticated(s) THEN "app.py"
    ELSE IF get_user_role(s) = "teacher" THEN "pages/03_Parent_Tracker.py"
    ELSE ""

\* the checks at the top of main of Teacher Resources
teacher_redirect(s) ==
    IF ~is_authenticated(s) THEN "app.py"
    ELSE IF get_user_role(s) = "parent" THEN "pages/03_Parent_Tracker.py"
    ELSE ""

\* as content_redirect, but without the check
content_redirect_open(s) == ""

\* the check at the top of main of Educational Content
content_redirect(s) == IF ~is_authenticated(s) THEN "app.py" ELSE ""

\* the script a run of this script is handed to, "" when it renders itself;
\* app.py renders the login form or the dashboard and hands over to no one
page_redirect(s, page) ==
    CASE page = "app.py" -> ""
      [] page = "pages/01_Prediction.py" -> prediction_redirect(s)
      [] page = "pages/02_Teacher_Resources.py" -> teacher_redirect(s)
      [] page = "pages/03_Parent_Tracker.py" -> parent_redirect(s)
      [] page = "pages/04_Educational_Content.py" -> content_redirect(s)

\* what a run of the script with no widget touched renders
page_view(s, page) ==
    IF page_redirect(s, page) # ""
    THEN [BlankView EXCEPT !.page = page_name(page), !.run = "redirect",
                           !.redirect = page_redirect(s, page)]
    ELSE IF page = "app.py"
    THEN IF is_authenticated(s) THEN dashboard_view(s)
         ELSE [BlankView EXCEPT !.page = "app", !.run = "login_form"]
    ELSE IF page = "pages/01_Prediction.py"
    THEN IF shows_cached(s) THEN cached_view(s, "cached")
         ELSE [BlankView EXCEPT !.page = "prediction", !.run = "form"]
    ELSE [BlankView EXCEPT !.page = page_name(page), !.run = "content"]

\* the user opens a page from the navigation
Open(s, page) ==
    /\ saving[s] = <<>>
    /\ view' = [page_view(s, page) EXCEPT !.trail = <<page>>]
    /\ UNCHANGED <<session_state, files, saving, now, fn>>

\* the run of the script st.switch_page named
Hop(s) ==
    /\ saving[s] = <<>>
    /\ view.run = "redirect"
    /\ Len(view.trail) < MaxHops
    /\ view' = [page_view(s, view.redirect) EXCEPT !.trail = Append(view.trail, view.redirect)]
    /\ UNCHANGED <<session_state, files, saving, now, fn>>

(***************************************************************************)
(* The files are plain files: they can be deleted or damaged from outside. *)
(***************************************************************************)
Damage(store, status) ==
    /\ files[store].status # status
    /\ files' = [files EXCEPT ![store] =
                    [status |-> status,
                     text |-> IF status = "absent" THEN <<>> ELSE @.text]]
    /\ UNCHANGED <<session_state, saving, now, view, fn>>

(***************************************************************************)
(* Applications of the pure functions: the arguments are drawn at the      *)
(* start, one step applies the function.                                   *)
(***************************************************************************)
NoCall == [op |-> "", args |-> <<>>, result |-> <<>>, done |-> TRUE]

ScoreSamples == {-1, 0, 100, 101}
BehaviorSamples == {0, 1, 5, 6}
LiteracySamples == {0, 1, 10, 11}

ValidatorArgs ==
    ScoreSamples \X ScoreSamples \X ScoreSamples \X ScoreSamples
        \X BehaviorSamples \X LiteracySamples

Probabilities == 0..100

ApplyValidate ==
    /\ fn.op = "validate_inputs"
    /\ ~fn.done
    /\ fn' = [fn EXCEPT !.done = TRUE,
                !.result = validate_inputs(fn.args[1], fn.args[2], fn.args[3],
                                           fn.args[4], fn.args[5], fn.args[6])]
    /\ UNCHANGED <<session_state, files, saving, now, view>>

\* data/users.json as the login finds it
UsersFiles ==
    {AbsentUsersFile,
     [status |-> "empty", users |-> <<>>],
     [status |-> "corrupt", users |-> dummy_users],
     [status |-> "ok", users |-> dummy_users],
     [status |-> "ok",
      users |-> <<[username |-> "teacher1", password |-> "password123", role |-> "teacher"],
                  [username |-> "teacher1", password |-> "secret", role |-> "parent"],
                  [username |-> "teacher1", password |-> "password123", role |-> "admin"]>>]}

\* the session_state a login finds: of a new session, after a failed login,
\* after a logout
LoginStates ==
    {("app_language" :> "English"),
     Put(("app_language" :> "English"), "authenticated", FALSE),
     logout_user(("app_language" :> "English"))}

LoginNames == {"teacher1", "admin", "nobody", ""}
LoginPasswords == {"password123", "adminpassword", "secret", ""}

ApplyLogin ==
    /\ fn.op = "login_submit"
    /\ ~fn.done
    /\ fn' = [fn EXCEPT !.done = TRUE,
                !.result = login_submit(load_users(fn.args[1]), fn.args[2],
                                        fn.args[3], fn.args[4])]
    /\ UNCHANGED <<session_state, files, saving, now, view>>

ApplyRiskLevel ==
    /\ fn.op = "risk_level"
    /\ ~fn.done
    /\ fn' = [fn EXCEPT !.done = TRUE,
                !.result = <<risk_level_fresh(fn.args[1], fn.args[2]),
                             risk_level_cached(fn.args[1], fn.args[2]),
                             risk_level_batch(fn.args[1])>>]
    /\ UNCHANGED <<session_state, files, saving, now, view>>

(***************************************************************************)
(* Inputs                                                                  *)
(***************************************************************************)
\* what make_prediction does with an input: a (label, probability) or an exception
ModelOutcomes ==
    {[raises |-> FALSE, prediction |-> 0, prob |-> 29],
     [raises |-> FALSE, prediction |-> 0, prob |-> 30],
     [raises |-> FALSE, prediction |-> 1, prob |-> 69],
     [raises |-> FALSE, prediction |-> 1, prob |-> 70],
     [raises |-> TRUE, prediction |-> 0, prob |-> 0]}

\* what the form widgets hand to the script.  The bounds of number_input and
\* slider are kept by the browser widget, the script takes the value the
\* client sends; a select_slider hands over one of its options.
Forms(language) ==
    [math_score : {-1, 40, 75},
     reading_score : {80},
     writing_score : {70},
     attendance : {85, 150},
     behavior_selection : {behavior_options(language)[3]},
     literacy_selection : {literacy_options[6]},
     student_name : {"Amina"},
     grade_level : {"Pre-K"},
     notes : {""}]

Credentials == {<<"teacher1", "password123">>, <<"parent1", "password123">>,
                <<"teacher1", "password">>, <<"nobody", "password123">>}

ChildNames == {"Ali"}

\* a row of an uploaded table with all required columns
BatchRow(math_score, attendance) ==
    [math_score |-> math_score, reading_score |-> 80, writing_score |-> 70,
     attendance |-> attendance, behavior |-> 3, literacy |-> 6]

\* a row and what make_prediction does with it
BatchCases ==
    {[row |-> BatchRow(75, 85), outcome |-> [raises |-> FALSE, prediction |-> 0, prob |-> 29]],
     [row |-> BatchRow(40, 85), outcome |-> [raises |-> FALSE, prediction |-> 0, prob |-> 30]],
     [row |-> BatchRow(75, 150), outcome |-> [raises |-> FALSE, prediction |-> 1, prob |-> 70]],
     [row |-> BatchRow(75, 85), outcome |-> [raises |-> TRUE, prediction |-> 0, prob |-> 0]]}

SeqsUpTo(S, n) == UNION {[1..k -> S] : k \in 0..n}

\* uploads with every required column, one without the behavior column, and
\* one without two of the required columns and with a column of its own
Uploads ==
    {[columns |-> Range(FeatureNames),
      rows |-> [i \in 1..Len(cases) |-> cases[i].row],
      outcomes |-> [i \in 1..Len(cases) |-> cases[i].outcome]] :
        cases \in SeqsUpTo(BatchCases, MaxRows)}
    \cup {[columns |-> Range(FeatureNames) \ {"behavior"},
           rows |-> <<[math_score |-> 75, reading_score |-> 80, writing_score |-> 70,
                       attendance |-> 85, literacy |-> 6]>>,
           outcomes |-> <<[raises |-> FALSE, prediction |-> 0, prob |-> 29]>>],
          [columns |-> (Range(FeatureNames) \ {"math_score", "literacy"}) \cup {"name"},
           rows |-> <<[name |-> "Amina", reading_score |-> 80, writing_score |-> 70,
                       attendance |-> 85, behavior |-> 3]>>,
           outcomes |-> <<[raises |-> FALSE, prediction |-> 0, prob |-> 29]>>],
          [columns |-> Range(FeatureNames) \cup {"name", "Risk_Level"},
           rows |-> <<BatchRow(75, 85) @@ [name |-> "Amina", Risk_Level |-> "Low Risk"]>>,
           outcomes |-> <<[raises |-> FALSE, prediction |-> 1, prob |-> 70]>>]}

(***************************************************************************)
(* Specifications                                                          *)
(***************************************************************************)
\* the keys every script sets at its top when they are missing
default_settings == [app_language |-> "English", app_theme |-> "Light", offline_mode |-> FALSE]

Init ==
    /\ session_state = [s \in Sessions |-> default_settings]
    /\ files = [store \in Stores |-> AbsentFile]
    /\ saving = [s \in Sessions |-> <<>>]
    /\ now = 0
    /\ view = BlankView
    /\ fn = NoCall

\* the form left at its defaults
DefaultForms(language) ==
    {form \in Forms(language) : form.math_score = 75 /\ form.attendance = 85}

\* a low and a high result
Returned == {outcome \in ModelOutcomes : ~outcome.raises /\ outcome.prob \in {29, 70}}

\* The paths of the Prediction page that call the model, in one session
NextPredict ==
    \/ \E c \in Credentials : Login("A", c[1], c[2])
    \/ \E language \in Languages : SetLanguage("A", language)
    \/ \E form \in Forms(language_of("A")), outcome \in ModelOutcomes :
            Predict("A", form, outcome)
    \/ Rerun("A")
    \/ \E upload \in Uploads : ProcessBatch("A", upload, upload.outcomes)

SpecPredict == Init /\ [][NextPredict]_vars

\* Sessions appending to the record stores at the same time, the files left
\* alone from outside
NextStore ==
    \/ \E s \in Sessions : Login(s, "admin", "adminpassword")
    \/ \E s \in Sessions, language \in Languages : SetLanguage(s, language)
    \/ \E s \in Sessions : \E form \in DefaultForms(language_of(s)), outcome \in Returned :
            Predict(s, form, outcome)
    \/ \E s \in Sessions : \E form \in DefaultForms(language_of(s)) : SaveClick(s, form)
    \/ \E s \in Sessions : SaveDone(s)
    \/ \E s \in Sessions, child_name \in ChildNames : ParentSubmit(s, child_name)
    \/ \E s \in Sessions : ParentSubmitDone(s)

SpecStore == Init /\ [][NextStore]_vars

\* One session saving, the files deleted or damaged from outside, and the
\* pages that read them
NextRead ==
    \/ Login("A", "admin", "adminpassword")
    \/ \E form \in DefaultForms(language_of("A")), outcome \in Returned :
            Predict("A", form, outcome)
    \/ \E form \in DefaultForms(language_of("A")) : SaveClick("A", form)
    \/ SaveDone("A")
    \/ \E child_name \in ChildNames : ParentSubmit("A", child_name)
    \/ ParentSubmitDone("A")
    \/ Historical("A")
    \/ Dashboard("A")
    \/ \E child_name \in ChildNames : ParentLog("A", child_name)
    \/ \E store \in Stores, status \in {"absent", "corrupt", "unreadable"} : Damage(store, status)

SpecRead == Init /\ [][NextRead]_vars

\* what make_prediction does in the session runs: a low result, a high
\* result, an exception
SessionOutcomes == {outcome \in ModelOutcomes : outcome.raises \/ outcome.prob \in {29, 70}}

\* One session through login, logout and the Single Student page, the form
\* edited between the runs, the file of the store writable or not
NextSession ==
    \/ \E c \in Credentials : Login("A", c[1], c[2])
    \/ Logout("A")
    \/ Reset("A")
    \/ \E form \in Forms(language_of("A")), outcome \in SessionOutcomes :
            Predict("A", form, outcome)
    \/ Rerun("A")
    \/ \E form \in Forms(language_of("A")) : SaveClick("A", form)
    \/ SaveDone("A")
    \/ \E failure \in WriteFailures : SaveFailed("A", failure)
    \/ SaveThisFresh("A")

SpecSession == Init /\ [][NextSession]_vars

NavCredentials == Credentials \cup {<<"admin", "adminpassword">>}

\* One session opening the pages, as nobody, teacher, parent and admin, and
\* using what the pages let it use
NextNav ==
    \/ \E c \in NavCredentials : Login("A", c[1], c[2])
    \/ Logout("A")
    \/ \E page \in Pages : Open("A", page)
    \/ Hop("A")
    \/ \E form \in DefaultForms(language_of("A")), outcome \in Returned :
            Predict("A", form, outcome)
    \/ \E child_name \in ChildNames : ParentSubmit("A", child_name)
    \/ ParentSubmitDone("A")
    \/ \E child_name \in ChildNames : ParentLog("A", child_name)
    \/ \E language \in Languages : SetLanguage("A", language)
    \/ \E form \in DefaultForms(language_of("A")) : SaveClick("A", form)
    \/ SaveDone("A")

SpecNav == Init /\ [][NextNav]_vars

\* the same, a script named by st.switch_page being run
SpecNavFair == SpecNav /\ WF_vars(Hop("A"))

\* The pure functions on their own
InitPure ==
    /\ session_state = [s \in Sessions |-> default_settings]
    /\ files = [store \in Stores |-> AbsentFile]
    /\ saving = [s \in Sessions |-> <<>>]
    /\ now = 0
    /\ view = BlankView
    /\ \/ \E a \in ValidatorArgs :
            fn = [op |-> "validate_inputs", args |-> a, result |-> <<>>, done |-> FALSE]
       \/ \E p \in Probabilities, language \in Languages :
            fn = [op |-> "risk_level", args |-> <<p, language>>, result |-> <<>>, done |-> FALSE]
       \/ \E file \in UsersFiles, ss \in LoginStates,
              username \in LoginNames, password \in LoginPasswords :
            fn = [op |-> "login_submit", args |-> <<file, ss, username, password>>,
                  result |-> <<>>, done |-> FALSE]

NextPure == ApplyValidate \/ ApplyRiskLevel \/ ApplyLogin

SpecPure == InitPure /\ [][NextPure]_vars

(***************************************************************************)
(* Properties                                                              *)
(***************************************************************************)
\* the ranges of the six fields, as the data model states them
InRange(d) ==
    /\ d.math_score \in 0..100
    /\ d.reading_score \in 0..100
    /\ d.writing_score \in 0..100
    /\ d.attendance \in 0..100
    /\ d.behavior \in 1..5
    /\ d.literacy \in 1..10

\* C1: every input a run handed to make_prediction, from the single-student
\* form or from a row of a batch upload, has its six fields in range.
C1_ModelInputsInRange ==
    \A i \in 1..Len(view.model_inputs) : InRange(view.model_inputs[i])

\* the messages of the fields of a out of range
ViolatedMessages(a) ==
    {m \in {MathMsg, ReadingMsg, WritingMsg, AttendanceMsg, BehaviorMsg, LiteracyMsg} :
        \/ m = MathMsg /\ a[1] \notin 0..100
        \/ m = ReadingMsg /\ a[2] \notin 0..100
        \/ m = WritingMsg /\ a[3] \notin 0..100
        \/ m = AttendanceMsg /\ a[4] \notin 0..100
        \/ m = BehaviorMsg /\ a[5] \notin 1..5
        \/ m = LiteracyMsg /\ a[6] \notin 1..10}

\* C2: validate_inputs returns the empty list iff all six fields are in range,
\* the message of a field is in the list iff that field is out of range, and
\* the list holds one message per violating field.
C2_ValidatorComplete ==
    (fn.op = "validate_inputs" /\ fn.done) =>
        /\ (fn.result = <<>>) <=> (ViolatedMessages(fn.args) = {})
        /\ Range(fn.result) = ViolatedMessages(fn.args)
        /\ Len(fn.result) = Cardinality(ViolatedMessages(fn.args))

C2_Witness ==
    /\ fn.op = "validate_inputs" /\ fn.done
    /\ fn.args = <<0, 100, 101, -1, 6, 10>>
    /\ fn.result = <<WritingMsg, AttendanceMsg, BehaviorMsg>>

\* C3: a Predict run whose input validate_inputs rejects calls make_prediction
\* for nothing, writes every collected message, and leaves
\* show_prediction_results and current_prediction_data as they were.
C3_RejectedPredict ==
    [][\A form \in Forms(language_of("A")), outcome \in ModelOutcomes :
        (/\ Predict("A", form, outcome)
         /\ validate_student(form_student_data(form)) # <<>>)
        => /\ view'.model_inputs = <<>>
           /\ view'.errors = validate_student(form_student_data(form))
           /\ Keep(session_state'["A"], {"show_prediction_results", "current_prediction_data"})
                = Keep(session_state["A"], {"show_prediction_results", "current_prediction_data"})
      ]_vars

C3_Witness ==
    /\ view.run = "rejected"
    /\ view.errors = <<MathMsg, AttendanceMsg>>
    /\ view.model_inputs = <<>>
    /\ shows_cached("A")

\* the tier a text shown in a language stands for
TierOfText(text, language) ==
    CHOOSE k \in {"low_risk", "medium_risk", "high_risk", "none"} :
        IF \E t \in Range(TierKeys) : get_text(t, language) = text
        THEN get_text(k, language) = text
        ELSE k = "none"

\* C4: the tier derived from a probability p is Low iff p < 0.30, High iff
\* p >= 0.70 and Medium otherwise; each p gets exactly one tier.
C4_TierThresholds ==
    (fn.op = "risk_level" /\ fn.done) =>
        LET p == fn.args[1]
            tier == TierOfText(fn.result[1], fn.args[2])
        IN  /\ tier = "low_risk" <=> p < 30
            /\ tier = "high_risk" <=> p >= 70
            /\ tier = "medium_risk" <=> (p >= 30 /\ p < 70)
            /\ Cardinality({k \in Range(TierKeys) : get_text(k, fn.args[2]) = fn.result[1]}) = 1

C4_Witness ==
    /\ fn.op = "risk_level" /\ fn.done
    /\ fn.args = <<30, "English">>
    /\ fn.result[1] = "Medium Risk"

\* C5: the tier shown with a fresh result and with the cached result on a
\* later rerun is the tier the batch loop gives to the stored probability,
\* whatever the language and however often the result is shown again; the
\* tier the batch loop derives is the tier of the row's probability (seen in
\* the rows of uploads that bring no Risk_Level column of their own).
C5_SameTierEverywhere ==
    /\ view.run \in {"fresh", "cached"} =>
        /\ shows_cached("A")
        /\ view.prob = session_state["A"]["current_prediction_data"].prediction_prob
        /\ TierOfText(view.risk_level, view.language)
             = TierOfText(risk_level_batch(view.prob), "English")
    /\ (view.run = "batch" /\ "Risk_Level" \notin view.upload[1].columns) =>
        \A i \in 1..Len(view.table) :
            view.table[i].Risk_Level = risk_level_batch(view.table[i].Risk_Probability[1])

C5_Witness ==
    /\ view.run = "cached"
    /\ view.prob = 70
    /\ view.language = "Somali"
    /\ language_of("A") = "English"
    /\ view.risk_level = get_text("high_risk", "Somali")

\* the list of a tier, the tier named by its English text
RecommendationsOf(tier) ==
    CASE tier = "Low Risk" -> LowRecommendations
      [] tier = "Medium Risk" -> MediumRecommendations
      [] tier = "High Risk" -> HighRecommendations

\* C6: the recommendations shown with a result are the fixed list of its
\* tier, whatever the student data and the language, and a run that only
\* shows them changes neither the session state nor the record store.
C6_RecommendationsByTier ==
    /\ [](view.run \in {"fresh", "cached"} =>
            view.recommendations = RecommendationsOf(risk_level_batch(view.prob)))
    /\ [][Rerun("A") => (session_state' = session_state /\ files' = files)]_vars

C6_Witness ==
    /\ view.run = "cached"
    /\ view.language = "Somali"
    /\ view.student_data[1].math_score = 40
    /\ view.prob = 30
    /\ view.recommendations = MediumRecommendations

\* the append of session s writes back in this step
Writes(s) == saving[s] # <<>> /\ saving'[s] = <<>>

\* C7: an append that found no store is followed by a store whose load_all
\* holds a record equal, field for field, to the record appended.
C7_RoundTrip ==
    [][\A s \in Sessions :
        (Writes(s) /\ saving[s][1].found = "absent")
        => \E i \in 1..Len(load_all(files'[saving[s][1].store])) :
                load_all(files'[saving[s][1].store])[i] = saving[s][1].record
      ]_vars

C7_Witness ==
    /\ now = 1
    /\ \A s \in Sessions : saving[s] = <<>>
    /\ Len(load_student_data) = 1
    /\ load_student_data[1].timestamp = isoformat(0)
    /\ load_student_data[1].risk_level = get_text("high_risk", "Somali")

\* C8: an append whose store is readable and was not written since the
\* append loaded it leaves load_all as it was, followed by the new record.
C8_AppendsInOrder ==
    [][\A s \in Sessions :
        (/\ Writes(s)
         /\ Readable(files[saving[s][1].store])
         /\ load_all(files[saving[s][1].store]) = saving[s][1].loaded)
        => load_all(files'[saving[s][1].store])
             = Append(load_all(files[saving[s][1].store]), saving[s][1].record)
      ]_vars

C8_Witness ==
    /\ now = 2
    /\ \A s \in Sessions : saving[s] = <<>>
    /\ Len(load_student_data) = 2
    /\ load_student_data[1].timestamp = isoformat(0)
    /\ load_student_data[2].timestamp = isoformat(1)

\* C9: the write-back of an append replaces the whole file by what the append
\* loaded plus its record, whatever the file holds by then; two appends at the
\* same time can so leave one record of the two.
C9_LastWriterWins ==
    [][\A s \in Sessions :
        Writes(s) => load_all(files'[saving[s][1].store])
                        = Append(saving[s][1].loaded, saving[s][1].record)
      ]_vars

C9_Witness ==
    /\ now = 2
    /\ \A s \in Sessions : saving[s] = <<>>
    /\ Len(load_parent_observations) = 0
    /\ Len(load_student_data) = 1

\* C10: a read of a store that is absent, corrupt or unreadable gives no
\* records, and the page that read it takes its no-data branch.
C10_DamagedStoreReadsEmpty ==
    view.read_status \in {"absent", "corrupt", "unreadable"} =>
        /\ view.loaded = <<>>
        /\ view.run = "no_data"

C10_Witness ==
    /\ view.read_status = "corrupt"
    /\ view.page = "app"
    /\ view.run = "no_data"
    /\ files["predictions"].status = "corrupt"
    /\ files["predictions"].text # <<>>

\* C11: a run in which the write of a saved prediction failed shows no
\* success message, is not ended by the error, renders the result, and
\* leaves the prediction in session_state.
C11_SaveFailureKeepsResult ==
    view.run \in {"save_failed", "aborted"}
    => /\ SavedMsg \notin Range(view.notices)
       /\ view.run # "aborted"
       /\ view.prob >= 0
       /\ shows_cached("A")

\* position of a column in the list of required columns
RequiredIndex(col) == CHOOSE i \in 1..Len(FeatureNames) : FeatureNames[i] = col

\* C12: an upload that lacks a required column is rejected; the error lists
\* the required columns the upload lacks, each once, in the order of the
\* required columns, and no row reaches make_prediction.
C12_MissingColumnsRejected ==
    (view.upload # <<>> /\ Range(FeatureNames) \ view.upload[1].columns # {})
    => /\ view.run = "batch_rejected"
       /\ view.model_inputs = <<>>
       /\ Len(view.notices) = 1
       /\ view.notices[1][1] = "Missing required columns"
       /\ LET missing == view.notices[1][2]
          IN  /\ Range(missing) = Range(FeatureNames) \ view.upload[1].columns
              /\ \A i, j \in 1..Len(missing) :
                    i < j => RequiredIndex(missing[i]) < RequiredIndex(missing[j])

C12_Witness ==
    /\ view.run = "batch_rejected"
    /\ view.upload[1].columns = {"reading_score", "writing_score", "attendance",
                                 "behavior", "name"}
    /\ view.notices[1][2] = <<"math_score", "literacy">>

\* C13: a processed upload with all required columns offers a result table
\* with one row per input row, each with Risk_Level and Risk_Probability.
C13_OneRowPerInputRow ==
    (view.run = "batch")
    => /\ Len(view.download) = view.upload[1].rows
       /\ \A i \in 1..Len(view.download) :
            {"Risk_Level", "Risk_Probability"} \subseteq DOMAIN view.download[i]

\* C14: no two stored observations have the same child name and date.
C14_OneObservationPerDay ==
    \A i, j \in 1..Len(load_parent_observations) :
        (/\ load_parent_observations[i].child_name = load_parent_observations[j].child_name
         /\ load_parent_observations[i].date = load_parent_observations[j].date)
        => i = j

\* C15: an append to the prediction store starts only in a run with a save
\* control clicked while a prediction is cached, and the store changes only
\* when that append writes; predicting, re-displaying, resetting and a save
\* click without a prediction append nothing.
C15_SaveOnlyOnClick ==
    [][/\ (saving["A"] = <<>> /\ saving'["A"] # <<>>)
            => (view'.run = "saving" /\ shows_cached("A"))
       /\ (files' # files)
            => (Writes("A") /\ view'.run = "saved" /\ shows_cached("A"))
      ]_vars

C15_Witness ==
    /\ view.run = "saved"
    /\ Len(load_student_data) = 1
    /\ "reset_counter" \in DOMAIN session_state["A"]

\* the cached prediction of a session, <<>> when none is cached
CachedPrediction(ss) ==
    IF "current_prediction_data" \in DOMAIN ss THEN <<ss["current_prediction_data"]>> ELSE <<>>

\* C16: the cached prediction changes only by a Predict that returned or by
\* Clear Form, and the record of a save holds the cached label, probability,
\* six values, name, grade and notes, whatever the form holds at the save.
C16_CachedResultImmutable ==
    /\ [][CachedPrediction(session_state'["A"]) # CachedPrediction(session_state["A"])
            => \/ view'.run = "fresh"
               \/ (view'.run = "form" /\ CachedPrediction(session_state'["A"]) = <<>>)
         ]_vars
    /\ [](view.run = "saving"
            => LET pred_data == session_state["A"]["current_prediction_data"]
                   record == saving["A"][1].record
               IN  /\ record.prediction = pred_data.prediction
                   /\ record.probability = pred_data.prediction_prob
                   /\ \A i \in 1..Len(FeatureNames) :
                        record[FeatureNames[i]] = pred_data.student_data[FeatureNames[i]]
                   /\ record.student_name = pred_data.student_name
                   /\ record.grade_level = pred_data.grade_level
                   /\ record.notes = pred_data.notes)

C16_Witness ==
    /\ view.run = "saving"
    /\ view.form[1].math_score = 40
    /\ saving["A"][1].record.math_score = 75
    /\ session_state["A"]["current_prediction_data"].student_data.math_score = 75

\* C17: every login that fails leaves the session_state it found with
\* authenticated = False and writes the one message, whatever the username
\* and the password were.
C17_FailedLoginGeneric ==
    (fn.op = "login_submit" /\ fn.done /\ ~fn.result.returned)
    => /\ fn.result.session_state = Put(fn.args[2], "authenticated", FALSE)
       /\ fn.result.notices = <<InvalidLoginMsg>>

C17_Witness ==
    /\ fn.op = "login_submit" /\ fn.done /\ ~fn.result.returned
    /\ fn.args[1].status = "ok"
    /\ fn.args[3] = "teacher1"
    /\ fn.args[4] = "adminpassword"

\* C18: a Predict whose make_prediction raised shows a result, labelled as a
\* sample, in place of the model's.
C18_FailedPredictShowsSample ==
    view.run = "failed"
    => /\ view.notices # <<>>
       /\ view.prob >= 0
       /\ view.risk_level # ""

\* entries of the user list that match the credentials
Matches(users, username, password) ==
    {i \in 1..Len(users) : users[i].username = username /\ users[i].password = password}

\* C19: authenticate_user returns True iff an entry of the loaded list has
\* this username and this password; then the session holds authenticated =
\* True and the username and role of the first such entry, else
\* authenticated = False.
C19_AuthenticateFirstMatch ==
    (fn.op = "login_submit" /\ fn.done)
    => LET users == IF fn.args[1].status \in {"absent", "empty"} THEN dummy_users
                    ELSE IF fn.args[1].status = "ok" THEN fn.args[1].users
                    ELSE <<>>
           hits == Matches(users, fn.args[3], fn.args[4])
           after == fn.result.session_state
       IN  /\ fn.result.returned <=> hits # {}
           /\ hits # {} =>
                \E i \in hits :
                    /\ \A j \in hits : i <= j
                    /\ after["authenticated"] = TRUE
                    /\ after["username"] = users[i].username
                    /\ after["role"] = users[i].role
           /\ hits = {} => after["authenticated"] = FALSE

C19_Witness ==
    /\ fn.op = "login_submit" /\ fn.done /\ fn.result.returned
    /\ Cardinality(Matches(fn.args[1].users, fn.args[3], fn.args[4])) = 2
    /\ fn.args[1].status = "ok"
    /\ fn.result.session_state["role"] = "teacher"

\* C20: a session that is not authenticated has no role and no username.
C20_RoleOnlyWhileAuthenticated ==
    ~is_authenticated("A")
    => /\ get_user_role("A") = None
       /\ Get(session_state["A"], "username", None) = None

C20_Witness ==
    /\ ~is_authenticated("A")
    /\ "role" \in DOMAIN session_state["A"]
    /\ "reset_counter" \in DOMAIN session_state["A"]
    /\ view.run = "login"
    /\ view.notices = <<InvalidLoginMsg>>

\* C21: a session that is not authenticated sees the login form or is sent
\* to app.py; nothing it runs reads or writes a store or calls the model.
C21_NothingWithoutLogin ==
    /\ [](~is_authenticated("A")
            => /\ view.run \in {"", "login", "login_form", "redirect"}
               /\ view.run = "redirect" => view.redirect = "app.py"
               /\ view.model_inputs = <<>>
               /\ view.read_status = ""
               /\ view.loaded = <<>>
               /\ saving["A"] = <<>>)
    /\ [][~is_authenticated("A") => (files' = files /\ saving' = saving)]_vars

C21_Witness ==
    /\ ~is_authenticated("A")
    /\ view.run = "redirect"
    /\ view.trail = <<"pages/04_Educational_Content.py">>
    /\ Len(load_parent_observations) = 1

\* C22: a teacher session never has the Parent Tracker rendered and changes
\* no stored observation, a parent session never has Teacher Resources
\* rendered; each is sent to its own page, and an admin session is sent
\* nowhere.
C22_RoleAccess ==
    /\ []((is_authenticated("A") /\ get_user_role("A") = "teacher")
            => /\ ~(view.page = "parent" /\ view.run # "redirect")
               /\ (view.page = "parent" /\ view.run = "redirect")
                    => view.redirect = "pages/02_Teacher_Resources.py"
               /\ (saving["A"] # <<>> => saving["A"][1].store # "observations"))
    /\ []((is_authenticated("A") /\ get_user_role("A") = "parent")
            => /\ ~(view.page = "teacher" /\ view.run # "redirect")
               /\ (view.page = "teacher" /\ view.run = "redirect")
                    => view.redirect = "pages/03_Parent_Tracker.py")
    /\ []((is_authenticated("A") /\ get_user_role("A") = "admin")
            => view.run # "redirect")
    /\ [][(is_authenticated("A") /\ get_user_role("A") = "teacher")
            => files'["observations"] = files["observations"]]_vars

C22_Witness ==
    /\ is_authenticated("A")
    /\ get_user_role("A") = "teacher"
    /\ view.trail = <<"pages/03_Parent_Tracker.py", "pages/02_Teacher_Resources.py">>
    /\ view.page = "teacher"
    /\ view.run = "content"
    /\ Len(load_parent_observations) = 1

C24_ClearFormFrame ==
    [][view'.clicked = "reset"
        => LET before == session_state["A"]
               after == session_state'["A"]
               kept == {"app_language", "app_theme", "offline_mode",
                        "authenticated", "username", "role"}
           IN  /\ \A k \in kept :
                    /\ k \in DOMAIN after <=> k \in DOMAIN before
                    /\ k \in DOMAIN before => after[k] = before[k]
               /\ DOMAIN after \subseteq kept \cup {"reset_counter"}
               /\ "reset_counter" \in DOMAIN after => after["reset_counter"] = 1
               /\ "show_prediction_results" \notin DOMAIN after
               /\ "current_prediction_data" \notin DOMAIN after
               /\ view'.prob = -1
               /\ files' = files
               /\ saving' = saving
      ]_vars

C24_Witness ==
    /\ view.clicked = "reset"
    /\ Len(load_student_data) = 1
    /\ ~shows_cached("A")
    /\ get_user_role("A") = "teacher"

\* C25: every Clear Form leaves a reset_counter greater than the one it found.
C25_ResetCounterIncreases ==
    [][view'.clicked = "reset"
        => Get(session_state'["A"], "reset_counter", 0)
             > Get(session_state["A"], "reset_counter", 0)
      ]_vars

\* C26: the run after a Predict that was rejected or that failed shows no
\* result but that of a new Predict, and starts no save.
C26_NoStaleResult ==
    [][view.run \in {"rejected", "failed"}
        => (view'.run = "fresh" \/ (view'.prob = -1 /\ saving'["A"] = <<>>))
      ]_vars

\* C27: a run started by a click on a save control while a prediction is
\* cached appends a record of it.
C27_SaveClickAppends ==
    (view.clicked \in {"save", "save_this_fresh"} /\ shows_cached("A"))
    => view.run \in {"saving", "saved", "save_failed", "aborted"}

\* C28: on the dashboard the three risk counts add up to total_students.
C28_DashboardCountsAll ==
    (view.page = "app" /\ view.run = "dashboard")
    => view.table[1].on_track_count + view.table[1].at_risk_count
         + view.table[1].intervention_count = view.table[1].total_students

\* the calls of make_prediction that returned, in call order
Succeeded(outputs) == SelectSeq([i \in 1..Len(outputs) |-> i], LAMBDA i : ~outputs[i].raises)

\* C29: the batch result table holds one row for each row whose prediction
\* returned, in input order; each row whose prediction raised is reported,
\* and nothing else is reported as an error.
C29_BatchSkipsFailedRows ==
    (view.run = "batch")
    => /\ Len(view.model_outputs) = view.upload[1].rows
       /\ Len(view.table) = Len(Succeeded(view.model_outputs))
       /\ \A k \in 1..Len(view.table) :
            \A col \in DOMAIN view.model_inputs[Succeeded(view.model_outputs)[k]] :
                view.table[k][col] = view.model_inputs[Succeeded(view.model_outputs)[k]][col]
       /\ \A i \in 1..Len(view.model_outputs) :
            view.model_outputs[i].raises
                => \E n \in 1..Len(view.notices) :
                        view.notices[n] = <<"Error processing student", i>>
       /\ \A n \in 1..Len(view.notices) : view.notices[n][1] = "Error processing student"

\* C30: in each batch result row Student_ID is the row's position,
\* Risk_Level and Risk_Probability are derived from the probability the
\* model gave for the row, and every uploaded column has its uploaded value.
C30_BatchRowValues ==
    (view.run = "batch")
    => \A k \in 1..Len(view.table) :
            LET i == Succeeded(view.model_outputs)[k]
                row == view.model_inputs[i]
                prediction_prob == view.model_outputs[i].prob
            IN  /\ view.table[k].Student_ID = i
                /\ view.table[k].Risk_Level = risk_level_batch(prediction_prob)
                /\ view.table[k].Risk_Probability = format_percent(prediction_prob)
                /\ \A col \in DOMAIN row : view.table[k][col] = row[col]

====
